---- MODULE Spec2Model ----
(***************************************************************************)
(* chan-downloader: the poll scheduler of main (src/src/bin.rs), one sync  *)
(* cycle (explore_thread) with its pool of fetch-and-save workers run by   *)
(* buffer_unordered, the process-wide ledger DOWNLOADED_FILES, and the     *)
(* link extractor get_image_links (src/src/lib.rs).                        *)
(*                                                                         *)
(* Time is counted in seconds.  The program reads the clock only at the    *)
(* start of a cycle (load_start) and right after it (runtime,              *)
(* load_runtime), so the time a cycle takes is added when it returns.      *)
(* The workers of a cycle are futures polled by one task: a worker runs    *)
(* without interruption between two of its await points, which are the     *)
(* send of the request and the read of the response body in save_image.    *)
(***************************************************************************)
EXTENDS Integers, Sequences, FiniteSets

(* ------------------------------ bounds --------------------------------- *)

\* Largest --interval and --limit values tried (minutes), largest
\* --concurrent, longest cycle (in ticks of TickSecs seconds), longest page
\* (in raw regex matches) handed to get_image_links on its own.
MaxInterval == 2
MaxLimit == 1
MaxConcurrent == 2
MaxCycleTicks == 3
MaxMatches == 4

\* Seconds per tick of the cycle durations tried, and seconds per minute.
TickSecs == 30
SecsPerMinute == 60

(* ------------------------------ values --------------------------------- *)

\* A media locator as the regex captures it: the part before the trailing
\* file name, and the trailing file name (capture group 2).
U1 == [dir |-> "//i.4cdn.org/wg/", file |-> "1.jpg"]
U2 == [dir |-> "//i.4cdn.org/wg/", file |-> "2.png"]
U3 == [dir |-> "//is2.4chan.org/wg/", file |-> "1.jpg"]
Urls == {U1, U2, U3}

\* The storage directory, resolved once by create_directory.
Directory == "downloads/wg/6872254"

RECURSIVE SeqsUpTo(_, _)
SeqsUpTo(S, n) ==
    IF n = 0 THEN {<<>>}
    ELSE LET shorter == SeqsUpTo(S, n - 1)
         IN  shorter \cup {Append(s, x) : s \in {t \in shorter : Len(t) = n - 1}, x \in S}

\* Page texts, each viewed as the sequence of its raw regex matches.
AllPages == SeqsUpTo(Urls, MaxMatches)

\* The pages served to the running program: an empty thread, threads whose
\* links each occur twice (as 4chan serves them), one of them with two
\* locators of the same file name, and a thread with one link four times.
Pages ==
    { <<>>,
      <<U1, U1>>,
      <<U1, U1, U2, U2>>,
      <<U1, U1, U2, U2, U3, U3>>,
      <<U1, U1, U1, U1>> }

\* Thread locators, as sequences of characters.
Schemes == {<<"h", "t", "t", "p", "s", ":">>, <<"h", "t", "t", "p", ":">>}
Hosts == {<<"b", "o", "a", "r", "d", "s", ".", "4", "c", "h", "a", "n", ".", "o", "r", "g">>,
          <<"a", "r", "c", "h", "i", "v", "e", ".", "4", "p", "l", "e", "b", "s", ".", "o", "r", "g">>}
Boards == {<<"w", "g">>, <<"x">>}
Ids == {<<"6", "8", "7", "2", "2", "5", "4">>,
        <<"0">>,
        <<"0", "0", "7">>,
        <<"4", "2", "9", "4", "9", "6", "7", "2", "9", "5">>,
        <<"4", "2", "9", "4", "9", "6", "7", "2", "9", "6">>}
Fragments == {<<>>, <<"#", "p", "6", "8", "7", "2", "2", "5", "4">>, <<"#", "q", "/", "1">>}

\* scheme://host/board/thread/id[#fragment]
Locator(scheme, host, board, id, fragment) ==
    scheme \o <<"/", "/">> \o host \o <<"/">> \o board
           \o <<"/", "t", "h", "r", "e", "a", "d", "/">> \o id \o fragment

Shapes == [scheme : Schemes, host : Hosts, board : Boards, id : Ids, fragment : Fragments]
LocatorOf(c) == Locator(c.scheme, c.host, c.board, c.id, c.fragment)
WellFormedLinks == {LocatorOf(c) : c \in Shapes}

\* Locators with fewer than six segments, and with an id that is no number.
ShortLinks == {<<"h", "t", "t", "p", "s", ":", "/", "/", "b", "o", "a", "r", "d", "s", ".", "4", "c", "h", "a", "n", ".", "o", "r", "g", "/", "w", "g">>,
      <<"b", "o", "a", "r", "d", "s", ".", "4", "c", "h", "a", "n", ".", "o", "r", "g", "/", "w", "g", "/", "t", "h", "r", "e", "a", "d", "/", "6", "8", "7", "2", "2", "5", "4">>}
NonNumericLinks == {<<"h", "t", "t", "p", "s", ":", "/", "/", "b", "o", "a", "r", "d", "s", ".", "4", "c", "h", "a", "n", ".", "o", "r", "g", "/", "w", "g", "/", "t", "h", "r", "e", "a", "d", "/">>,
      <<"h", "t", "t", "p", "s", ":", "/", "/", "b", "o", "a", "r", "d", "s", ".", "4", "c", "h", "a", "n", ".", "o", "r", "g", "/", "w", "g", "/", "t", "h", "r", "e", "a", "d", "/", "6", "8", "x", "2">>,
      <<"h", "t", "t", "p", "s", ":", "/", "/", "b", "o", "a", "r", "d", "s", ".", "4", "c", "h", "a", "n", ".", "o", "r", "g", "/", "w", "g", "/", "c", "a", "t", "a", "l", "o", "g", "/", "#", "s", "=", "1">>}
MalformedLinks == ShortLinks \cup NonNumericLinks

\* The locator the running program is started with.
ThreadUrl == <<"h", "t", "t", "p", "s", ":", "/", "/", "b", "o", "a", "r", "d", "s", ".", "4", "c", "h", "a", "n", ".", "o", "r", "g", "/", "w", "g", "/", "t", "h", "r", "e", "a", "d", "/", "6", "8", "7", "2", "2", "5", "4">>

VARIABLES
    pc,                 \* where main is: "start", "loop", "pool", "sleep", "done",
                        \* "panicked", "failed" (main returned Err); or
                        \* "extract"/"extracted", "parse"/"parsed" when
                        \* get_image_links or get_thread_info runs alone
    now,                \* the clock, seconds since `start` (bin.rs:51)
    load_start,         \* bin.rs:59
    reload, interval, limit, concurrent,   \* the command line (bin.rs:42-45)
    cwd,                \* the working directory: "present" | "removed" (bin.rs:165)
    DOWNLOADED_FILES,   \* bin.rs:30, a Vec<String>
    disk,               \* the storage directory: path -> "none" | "partial" | "full"
    page,               \* the page text of the current cycle
    links_vec,          \* bin.rs:95
    wpc,                \* per link: "queued", "new", "sending", "reading", "done"
    wout,               \* per link: what its worker ended with ("none" while running)
    cycles,             \* calls of explore_thread so far
    sleeps,             \* calls of thread::sleep so far
    page_result,        \* get_page_content of the current cycle: "none" | "ok" | "err"
    prev_page,          \* the page texts of the previous completed cycle (none or one)
    prev_send_err,      \* the paths of the workers of the previous cycle that got no response
    start_disk,         \* the storage directory as it was when the current cycle began
    start_ledger,       \* the ledger as it was when the current cycle began
    wgets,              \* per link: HTTP GETs its worker has issued in the current cycle
    thread_link,        \* the --thread argument, a sequence of characters (bin.rs:36-38)
    thread_info,        \* what get_thread_info made of thread_link (NoThread before)
    dir_state,          \* the storage directory: "absent", "exists", "created", "error" (create_dir_all failed)
    load_runtime,       \* bin.rs:62, 0 while a cycle runs
    prev_failed         \* the paths whose fetch failed in the previous cycle

vars == <<pc, now, load_start, reload, interval, limit, concurrent, cwd,
          DOWNLOADED_FILES, disk, page, links_vec, wpc, wout, cycles, sleeps,
          page_result, prev_page, prev_send_err,
          start_disk, start_ledger, wgets, thread_link, thread_info,
          dir_state, load_runtime, prev_failed>>

schedVars == <<now, load_start, cycles, sleeps>>
confVars == <<reload, interval, limit, concurrent, cwd>>
prevVars == <<prev_page, prev_send_err, prev_failed>>

(* ------------------------- src/src/lib.rs ------------------------------ *)

\* Link { url, name } pushed for one capture (lib.rs:146-149).
LinkOf(cap) == [url |-> cap, name |-> cap.file]

\* Iterator::step_by(2): the elements at positions 1, 3, 5, ... (1-based).
RECURSIVE step_by_2(_)
step_by_2(s) ==
    IF Len(s) = 0 THEN <<>>
    ELSE IF Len(s) = 1 THEN <<s[1]>>
    ELSE <<s[1]>> \o step_by_2(SubSeq(s, 3, Len(s)))

get_image_links(page_content) ==
    LET caps == step_by_2(page_content)
    IN  [i \in 1..Len(caps) |-> LinkOf(caps[i])]

\* ---- get_thread_info (lib.rs:94-106).  Strings are sequences of
\* one-character strings.

\* str::split(c): the pieces between the occurrences of c, empty ones kept.
RECURSIVE split(_, _)
split(str, c) ==
    IF \A k \in 1..Len(str) : str[k] # c THEN <<str>>
    ELSE LET k == CHOOSE j \in 1..Len(str) :
                     str[j] = c /\ \A h \in 1..(j - 1) : str[h] # c
         IN  <<SubSeq(str, 1, k - 1)>> \o split(SubSeq(str, k + 1, Len(str)), c)

Digits == {"0", "1", "2", "3", "4", "5", "6", "7", "8", "9"}
DigitVal(c) ==
    CASE c = "0" -> 0 [] c = "1" -> 1 [] c = "2" -> 2 [] c = "3" -> 3 [] c = "4" -> 4
      [] c = "5" -> 5 [] c = "6" -> 6 [] c = "7" -> 7 [] c = "8" -> 8 [] c = "9" -> 9

\* u32::MAX, 4294967295, in decimal digits.
U32MaxDigits == <<"4", "2", "9", "4", "9", "6", "7", "2", "9", "5">>

RECURSIVE strip_zeros(_)
strip_zeros(ds) ==
    IF Len(ds) > 1 /\ ds[1] = "0" THEN strip_zeros(Tail(ds)) ELSE ds

\* a <= b for two digit strings of the same length.
RECURSIVE leq_digits(_, _)
leq_digits(a, b) ==
    IF Len(a) = 0 THEN TRUE
    ELSE IF DigitVal(a[1]) < DigitVal(b[1]) THEN TRUE
    ELSE IF DigitVal(a[1]) > DigitVal(b[1]) THEN FALSE
    ELSE leq_digits(Tail(a), Tail(b))

\* str.parse::<u32>(): an optional '+', then one or more decimal digits whose
\* value fits 32 bits.  The value is given by its decimal digits without
\* leading zeros.
parse_u32(str) ==
    LET ds == IF Len(str) > 0 /\ str[1] = "+" THEN Tail(str) ELSE str
        n == strip_zeros(ds)
    IN  IF Len(ds) = 0 \/ \E k \in 1..Len(ds) : ds[k] \notin Digits
        THEN [ok |-> FALSE, value |-> <<>>]
        ELSE IF Len(n) > Len(U32MaxDigits)
                \/ (Len(n) = Len(U32MaxDigits) /\ ~leq_digits(n, U32MaxDigits))
        THEN [ok |-> FALSE, value |-> <<>>]
        ELSE [ok |-> TRUE, value |-> n]

\* The process panicked inside get_thread_info, or it was not called yet.
ThreadPanic == [ok |-> FALSE, called |-> TRUE, board |-> <<>>, id |-> <<>>]
NoThread == [ok |-> FALSE, called |-> FALSE, board |-> <<>>, id |-> <<>>]

\* A get_thread_info that takes the board one segment too early.
get_thread_info_off_by_one(url) ==
    LET url_vec == split(url, "/")
    IN  IF Len(url_vec) < 6 THEN ThreadPanic
        ELSE LET id == parse_u32(split(url_vec[6], "#")[1])
             IN  IF ~id.ok THEN ThreadPanic
                 ELSE [ok |-> TRUE, called |-> TRUE, board |-> url_vec[3], id |-> id.value]

\* url_vec[3] and url_vec[5] (0-based) panic when the url has too few
\* segments, expect panics when the id does not parse (lib.rs:96-105).
get_thread_info(url) ==
    LET url_vec == split(url, "/")
    IN  IF Len(url_vec) < 6 THEN ThreadPanic
        ELSE LET id == parse_u32(split(url_vec[6], "#")[1])
             IN  IF ~id.ok THEN ThreadPanic
                 ELSE [ok |-> TRUE, called |-> TRUE, board |-> url_vec[4], id |-> id.value]

(* ------------------------- src/src/bin.rs ------------------------------ *)

\* directory.join(link.name) (bin.rs:113-114).
img_path(link) == <<Directory, link.name>>

Paths == {<<Directory, u.file>> : u \in Urls}

\* db.contains(&String::from(image_path)) (bin.rs:115-122).
has_been_downloaded(db, image_path) == \E k \in 1..Len(db) : db[k] = image_path

\* A ledger that forgets what it held when a path is recorded, and one that
\* records nothing.
mark_as_downloaded_reset(db, file) == <<file>>
mark_as_downloaded_lost(db, file) == db

\* db.push(file.to_string()) (bin.rs:77-84).
mark_as_downloaded(db, file) == Append(db, file)

\* A check that never finds the file.
exists_never(d, image_path) == FALSE

\* img_path.exists() (bin.rs:126).
exists(d, image_path) == d[image_path] # "none"

\* Duration::from_secs(60 * interval) (bin.rs:52).
wait_time == SecsPerMinute * interval

\* A limit that is kept when --reload is absent.
limit_time_ignores_reload == SecsPerMinute * limit

\* bin.rs:53-57.
limit_time == IF reload THEN SecsPerMinute * limit ELSE 0

InFlight == {i \in 1..Len(links_vec) : wpc[i] \in {"new", "sending", "reading"}}
Queued == {i \in 1..Len(links_vec) : wpc[i] = "queued"}

\* A buffer that takes one future too many.
HasRoomOffByOne(n) == n <= concurrent

\* buffer_unordered(concurrent) pulls the next future while fewer than
\* `concurrent` are in progress (bin.rs:147).
HasRoom(n) == n < concurrent
CanDispatch == Queued # {} /\ HasRoom(Cardinality(InFlight))

Init ==
    /\ pc = "start"
    /\ now = 0
    /\ load_start = 0
    /\ reload \in BOOLEAN
    /\ interval \in 0..MaxInterval
    /\ limit \in 0..MaxLimit
    /\ concurrent \in 1..MaxConcurrent
    /\ DOWNLOADED_FILES = <<>>
    /\ dir_state \in {"absent", "exists"}
    /\ disk \in [Paths -> {"none", "full"}]
    /\ dir_state = "absent" => \A p \in Paths : disk[p] = "none"
    /\ page = <<>>
    /\ links_vec = <<>>
    /\ wpc = <<>>
    /\ wout = <<>>
    /\ cycles = 0
    /\ sleeps = 0
    /\ page_result = "none"
    /\ prev_page = {}
    /\ prev_send_err = {}
    /\ start_disk = disk
    /\ start_ledger = <<>>
    /\ wgets = <<>>
    /\ thread_link = ThreadUrl
    /\ thread_info = NoThread
    /\ load_runtime = 0
    /\ prev_failed = {}
    /\ cwd \in {"present", "removed"}

\* get_thread_infos, which create_directory calls (bin.rs:168), is not among
\* the sources.  Its result is a pair (board_name, thread_id) that is joined
\* into the path (bin.rs:168-170): for a locator
\* scheme://host/board/thread/id[#fragment] it is taken to be the board and
\* the id segment, as text.  What it does with any other locator is not
\* known and is not modelled.
get_thread_infos(url) ==
    LET url_vec == split(url, "/")
    IN  [ok |-> TRUE, called |-> TRUE,
         board |-> url_vec[4], id |-> split(url_vec[6], "#")[1]]

startVars == <<now, load_start, cycles, sleeps, load_runtime, DOWNLOADED_FILES, disk,
               page, links_vec, wpc, wout, page_result, start_disk, start_ledger,
               wgets, thread_link>>

\* env::current_dir() fails: create_directory returns Err before it looks at
\* the locator or at the storage directory (bin.rs:165), and main returns
\* it (the `?` of bin.rs:49).
StartupCwdError ==
    /\ pc = "start"
    /\ cwd = "removed"
    /\ pc' = "failed"
    /\ UNCHANGED <<thread_info, dir_state>>
    /\ UNCHANGED startVars
    /\ UNCHANGED confVars
    /\ UNCHANGED prevVars

\* create_directory finds the directory or creates it (bin.rs:170-175,
\* 184-185), and main goes on to its loop (bin.rs:51-58).
Startup ==
    /\ pc = "start"
    /\ cwd = "present"
    /\ thread_info' = get_thread_infos(thread_link)
    /\ dir_state' = IF dir_state = "absent" THEN "created" ELSE dir_state
    /\ pc' = "loop"
    /\ UNCHANGED startVars
    /\ UNCHANGED confVars
    /\ UNCHANGED prevVars

\* create_dir_all fails: create_directory returns Err (bin.rs:176-180) and
\* main returns it (the `?` of bin.rs:49).
StartupDirError ==
    /\ pc = "start"
    /\ cwd = "present"
    /\ dir_state = "absent"
    /\ thread_info' = get_thread_infos(thread_link)
    /\ dir_state' = "error"
    /\ pc' = "failed"
    /\ UNCHANGED startVars
    /\ UNCHANGED confVars
    /\ UNCHANGED prevVars

\* main calls explore_thread and the page loads (bin.rs:59-60, 88-107).
BeginCycle ==
    /\ pc = "loop"
    /\ \E p \in Pages :
        /\ page' = p
        /\ links_vec' = get_image_links(p)
        /\ wpc' = [i \in 1..Len(get_image_links(p)) |-> "queued"]
        /\ wout' = [i \in 1..Len(get_image_links(p)) |-> "none"]
    /\ load_start' = now
    /\ cycles' = cycles + 1
    /\ page_result' = "ok"
    /\ pc' = "pool"
    /\ UNCHANGED <<now, sleeps, DOWNLOADED_FILES, disk>>
    /\ UNCHANGED confVars
    /\ UNCHANGED prevVars
    /\ start_disk' = disk
    /\ start_ledger' = DOWNLOADED_FILES
    /\ wgets' = [i \in 1..Len(links_vec') |-> 0]
    /\ UNCHANGED thread_link
    /\ UNCHANGED thread_info
    /\ UNCHANGED dir_state
    /\ load_runtime' = 0

\* get_page_content fails: explore_thread returns Err (bin.rs:154-158) and
\* main unwraps it (bin.rs:60).
BeginCyclePageErr ==
    /\ pc = "loop"
    /\ load_start' = now
    /\ cycles' = cycles + 1
    /\ page_result' = "err"
    /\ page' = <<>>
    /\ links_vec' = <<>>
    /\ wpc' = <<>>
    /\ wout' = <<>>
    /\ pc' = "panicked"
    /\ UNCHANGED <<now, sleeps, DOWNLOADED_FILES, disk>>
    /\ UNCHANGED confVars
    /\ UNCHANGED prevVars
    /\ start_disk' = disk
    /\ start_ledger' = DOWNLOADED_FILES
    /\ wgets' = <<>>
    /\ UNCHANGED thread_link
    /\ UNCHANGED thread_info
    /\ UNCHANGED dir_state
    /\ load_runtime' = 0

\* The worker of link i is pulled from the stream into the buffer
\* (bin.rs:109-112, 147): links are taken in page order.
Dispatch ==
    /\ pc = "pool"
    /\ CanDispatch
    /\ LET i == CHOOSE j \in Queued : \A k \in Queued : j <= k
       IN  wpc' = [wpc EXCEPT ![i] = "new"]
    /\ UNCHANGED <<pc, DOWNLOADED_FILES, disk, page, links_vec, wout, page_result>>
    /\ UNCHANGED schedVars
    /\ UNCHANGED confVars
    /\ UNCHANGED prevVars
    /\ UNCHANGED start_disk
    /\ UNCHANGED start_ledger
    /\ UNCHANGED wgets
    /\ UNCHANGED thread_link
    /\ UNCHANGED thread_info
    /\ UNCHANGED dir_state
    /\ UNCHANGED load_runtime

\* The buffer is refilled before any future in it is polled again.
CanPoll == pc = "pool" /\ ~CanDispatch

\* First poll of worker i, up to the send of its request (bin.rs:113-127):
\* a ledger hit, a file on disk, or a request.
SkipLedger(i) ==
    /\ CanPoll
    /\ wpc[i] = "new"
    /\ has_been_downloaded(DOWNLOADED_FILES, img_path(links_vec[i]))
    /\ wpc' = [wpc EXCEPT ![i] = "done"]
    /\ wout' = [wout EXCEPT ![i] = "skip_ledger"]
    /\ UNCHANGED <<pc, DOWNLOADED_FILES, disk, page, links_vec, page_result>>
    /\ UNCHANGED schedVars
    /\ UNCHANGED confVars
    /\ UNCHANGED prevVars
    /\ UNCHANGED start_disk
    /\ UNCHANGED start_ledger
    /\ UNCHANGED wgets
    /\ UNCHANGED thread_link
    /\ UNCHANGED thread_info
    /\ UNCHANGED dir_state
    /\ UNCHANGED load_runtime

SendRequest(i) ==
    /\ CanPoll
    /\ wpc[i] = "new"
    /\ ~has_been_downloaded(DOWNLOADED_FILES, img_path(links_vec[i]))
    /\ ~exists(disk, img_path(links_vec[i]))
    /\ wpc' = [wpc EXCEPT ![i] = "sending"]
    /\ UNCHANGED <<pc, DOWNLOADED_FILES, disk, page, links_vec, wout, page_result>>
    /\ UNCHANGED schedVars
    /\ UNCHANGED confVars
    /\ UNCHANGED prevVars
    /\ UNCHANGED start_disk
    /\ UNCHANGED start_ledger
    /\ wgets' = [wgets EXCEPT ![i] = @ + 1]
    /\ UNCHANGED thread_link
    /\ UNCHANGED thread_info
    /\ UNCHANGED dir_state
    /\ UNCHANGED load_runtime

SkipExists(i) ==
    /\ CanPoll
    /\ wpc[i] = "new"
    /\ ~has_been_downloaded(DOWNLOADED_FILES, img_path(links_vec[i]))
    /\ exists(disk, img_path(links_vec[i]))
    /\ DOWNLOADED_FILES' = mark_as_downloaded(DOWNLOADED_FILES, img_path(links_vec[i]))
    /\ wpc' = [wpc EXCEPT ![i] = "done"]
    /\ wout' = [wout EXCEPT ![i] = "skip_exists"]
    /\ UNCHANGED <<pc, disk, page, links_vec, page_result>>
    /\ UNCHANGED schedVars
    /\ UNCHANGED confVars
    /\ UNCHANGED prevVars
    /\ UNCHANGED start_disk
    /\ UNCHANGED start_ledger
    /\ UNCHANGED wgets
    /\ UNCHANGED thread_link
    /\ UNCHANGED thread_info
    /\ UNCHANGED dir_state
    /\ UNCHANGED load_runtime

\* client.get(url).send() fails: save_image returns Err (lib.rs:47) and the
\* worker reports it (bin.rs:134-137).
SendError(i) ==
    /\ CanPoll
    /\ wpc[i] = "sending"
    /\ wpc' = [wpc EXCEPT ![i] = "done"]
    /\ wout' = [wout EXCEPT ![i] = "send_err"]
    /\ UNCHANGED <<pc, DOWNLOADED_FILES, disk, page, links_vec, page_result>>
    /\ UNCHANGED schedVars
    /\ UNCHANGED confVars
    /\ UNCHANGED prevVars
    /\ UNCHANGED start_disk
    /\ UNCHANGED start_ledger
    /\ UNCHANGED wgets
    /\ UNCHANGED thread_link
    /\ UNCHANGED thread_info
    /\ UNCHANGED dir_state
    /\ UNCHANGED load_runtime

\* A response with a non-success status: the `if` of lib.rs:49 is skipped,
\* lib.rs:55 returns Ok(path), and the worker records the path
\* (bin.rs:129-133).
BadStatus(i) ==
    /\ CanPoll
    /\ wpc[i] = "sending"
    /\ DOWNLOADED_FILES' = mark_as_downloaded(DOWNLOADED_FILES, img_path(links_vec[i]))
    /\ wpc' = [wpc EXCEPT ![i] = "done"]
    /\ wout' = [wout EXCEPT ![i] = "bad_status"]
    /\ UNCHANGED <<pc, disk, page, links_vec, page_result>>
    /\ UNCHANGED schedVars
    /\ UNCHANGED confVars
    /\ UNCHANGED prevVars
    /\ UNCHANGED start_disk
    /\ UNCHANGED start_ledger
    /\ UNCHANGED wgets
    /\ UNCHANGED thread_link
    /\ UNCHANGED thread_info
    /\ UNCHANGED dir_state
    /\ UNCHANGED load_runtime

\* A success status: File::create(path) makes (or truncates) the file, then
\* the body is awaited (lib.rs:50-51).
CreateFile(i) ==
    /\ CanPoll
    /\ wpc[i] = "sending"
    /\ disk' = [disk EXCEPT ![img_path(links_vec[i])] = "partial"]
    /\ wpc' = [wpc EXCEPT ![i] = "reading"]
    /\ UNCHANGED <<pc, DOWNLOADED_FILES, page, links_vec, wout, page_result>>
    /\ UNCHANGED schedVars
    /\ UNCHANGED confVars
    /\ UNCHANGED prevVars
    /\ UNCHANGED start_disk
    /\ UNCHANGED start_ledger
    /\ UNCHANGED wgets
    /\ UNCHANGED thread_link
    /\ UNCHANGED thread_info
    /\ UNCHANGED dir_state
    /\ UNCHANGED load_runtime

\* A success status, and File::create(path).unwrap() panics (lib.rs:50).
CreateFilePanic(i) ==
    /\ CanPoll
    /\ wpc[i] = "sending"
    /\ wout' = [wout EXCEPT ![i] = "create_fail"]
    /\ pc' = "panicked"
    /\ UNCHANGED <<DOWNLOADED_FILES, disk, page, links_vec, wpc, page_result>>
    /\ UNCHANGED schedVars
    /\ UNCHANGED confVars
    /\ UNCHANGED prevVars
    /\ UNCHANGED start_disk
    /\ UNCHANGED start_ledger
    /\ UNCHANGED wgets
    /\ UNCHANGED thread_link
    /\ UNCHANGED thread_info
    /\ UNCHANGED dir_state
    /\ UNCHANGED load_runtime

\* response.bytes() fails: save_image returns Err (lib.rs:51), the file
\* created at lib.rs:50 stays as it is.
BodyError(i) ==
    /\ CanPoll
    /\ wpc[i] = "reading"
    /\ wpc' = [wpc EXCEPT ![i] = "done"]
    /\ wout' = [wout EXCEPT ![i] = "body_err"]
    /\ UNCHANGED <<pc, DOWNLOADED_FILES, disk, page, links_vec, page_result>>
    /\ UNCHANGED schedVars
    /\ UNCHANGED confVars
    /\ UNCHANGED prevVars
    /\ UNCHANGED start_disk
    /\ UNCHANGED start_ledger
    /\ UNCHANGED wgets
    /\ UNCHANGED thread_link
    /\ UNCHANGED thread_info
    /\ UNCHANGED dir_state
    /\ UNCHANGED load_runtime

\* The body arrives and is copied to the file (lib.rs:51-55), the path is
\* recorded (bin.rs:129-133).
SaveBody(i) ==
    /\ CanPoll
    /\ wpc[i] = "reading"
    /\ disk' = [disk EXCEPT ![img_path(links_vec[i])] = "full"]
    /\ DOWNLOADED_FILES' = mark_as_downloaded(DOWNLOADED_FILES, img_path(links_vec[i]))
    /\ wpc' = [wpc EXCEPT ![i] = "done"]
    /\ wout' = [wout EXCEPT ![i] = "saved"]
    /\ UNCHANGED <<pc, page, links_vec, page_result>>
    /\ UNCHANGED schedVars
    /\ UNCHANGED confVars
    /\ UNCHANGED prevVars
    /\ UNCHANGED start_disk
    /\ UNCHANGED start_ledger
    /\ UNCHANGED wgets
    /\ UNCHANGED thread_link
    /\ UNCHANGED thread_info
    /\ UNCHANGED dir_state
    /\ UNCHANGED load_runtime

\* The body arrives and io::copy(..).unwrap() panics (lib.rs:52).
WritePanic(i) ==
    /\ CanPoll
    /\ wpc[i] = "reading"
    /\ wout' = [wout EXCEPT ![i] = "write_fail"]
    /\ pc' = "panicked"
    /\ UNCHANGED <<DOWNLOADED_FILES, disk, page, links_vec, wpc, page_result>>
    /\ UNCHANGED schedVars
    /\ UNCHANGED confVars
    /\ UNCHANGED prevVars
    /\ UNCHANGED start_disk
    /\ UNCHANGED start_ledger
    /\ UNCHANGED wgets
    /\ UNCHANGED thread_link
    /\ UNCHANGED thread_info
    /\ UNCHANGED dir_state
    /\ UNCHANGED load_runtime

\* A pool that returns as soon as the stream of links is exhausted.
AllDoneStreamExhausted == Queued = {}

\* fetches.await: collect ends when the stream is exhausted and the buffer
\* is empty (bin.rs:147-149).
AllDone == \A i \in 1..Len(links_vec) : wpc[i] = "done"

\* The cycle lengths tried, in seconds: a cycle takes time.
CycleSecs == {TickSecs * k : k \in 1..MaxCycleTicks}

\* The ends of a worker whose fetch failed: no response, a non-success
\* status, a body that could not be read.
FetchFailures == {"send_err", "bad_status", "body_err"}

\* What the pool leaves for the next cycle to compare with.
EndOfPool ==
    /\ pc = "pool"
    /\ AllDone
    /\ prev_page' = {page}
    /\ prev_send_err' = {img_path(links_vec[i]) : i \in {j \in 1..Len(links_vec) : wout[j] = "send_err"}}
    /\ UNCHANGED <<DOWNLOADED_FILES, disk, page, links_vec, wpc, wout, page_result>>
    /\ UNCHANGED <<load_start, cycles>>
    /\ UNCHANGED confVars
    /\ UNCHANGED start_disk
    /\ UNCHANGED start_ledger
    /\ UNCHANGED wgets
    /\ UNCHANGED thread_link
    /\ UNCHANGED thread_info
    /\ UNCHANGED dir_state
    /\ prev_failed' = {img_path(links_vec[i]) : i \in {j \in 1..Len(links_vec) : wout[j] \in FetchFailures}}

\* A budget check that already stops at the budget.
exceeded_at_limit(runtime) == runtime >= limit_time

\* runtime > limit_time (bin.rs:63).
exceeded(runtime) == runtime > limit_time

\* A checked_sub that gives back the whole interval.
checked_sub_whole(a, b) == IF a >= b THEN a ELSE -1

\* wait_time.checked_sub(load_runtime) (bin.rs:67): -1 stands for None.
checked_sub(a, b) == IF a >= b THEN a - b ELSE -1

\* explore_thread returns after d seconds and the limit is exceeded
\* (bin.rs:149-152, 61-66).
ExitOnLimit ==
    /\ EndOfPool
    /\ \E d \in CycleSecs :
        /\ now' = now + d
        /\ load_runtime' = (now + d) - load_start
        /\ exceeded(now + d)
    /\ pc' = "done"
    /\ UNCHANGED sleeps

\* explore_thread returns after d seconds within the limit, with time left
\* in the interval: thread::sleep(remaining) is called (bin.rs:67-70).
GoToSleep ==
    /\ EndOfPool
    /\ \E d \in CycleSecs :
        /\ now' = now + d
        /\ load_runtime' = (now + d) - load_start
        /\ ~exceeded(now + d)
        /\ checked_sub(wait_time, (now + d) - load_start) # -1
    /\ pc' = "sleep"
    /\ sleeps' = sleeps + 1

\* explore_thread returns after d seconds within the limit, and the cycle
\* took longer than the interval: the loop goes on at once (bin.rs:67, 71).
LoopAtOnce ==
    /\ EndOfPool
    /\ \E d \in CycleSecs :
        /\ now' = now + d
        /\ load_runtime' = (now + d) - load_start
        /\ ~exceeded(now + d)
        /\ checked_sub(wait_time, (now + d) - load_start) = -1
    /\ pc' = "loop"
    /\ UNCHANGED sleeps

\* thread::sleep(remaining) returns (bin.rs:69-71).
WakeUp ==
    /\ pc = "sleep"
    /\ now' = now + checked_sub(wait_time, now - load_start)
    /\ pc' = "loop"
    /\ UNCHANGED <<DOWNLOADED_FILES, disk, page, links_vec, wpc, wout, page_result>>
    /\ UNCHANGED <<load_start, cycles, sleeps>>
    /\ UNCHANGED confVars
    /\ UNCHANGED prevVars
    /\ UNCHANGED start_disk
    /\ UNCHANGED start_ledger
    /\ UNCHANGED wgets
    /\ UNCHANGED thread_link
    /\ UNCHANGED thread_info
    /\ UNCHANGED dir_state
    /\ UNCHANGED load_runtime

Next ==
    \/ StartupCwdError
    \/ Startup
    \/ StartupDirError
    \/ BeginCycle
    \/ BeginCyclePageErr
    \/ Dispatch
    \/ \E i \in 1..Len(links_vec) : SkipLedger(i)
    \/ \E i \in 1..Len(links_vec) : SendRequest(i)
    \/ \E i \in 1..Len(links_vec) : SkipExists(i)
    \/ \E i \in 1..Len(links_vec) : SendError(i)
    \/ \E i \in 1..Len(links_vec) : BadStatus(i)
    \/ \E i \in 1..Len(links_vec) : CreateFile(i)
    \/ \E i \in 1..Len(links_vec) : CreateFilePanic(i)
    \/ \E i \in 1..Len(links_vec) : BodyError(i)
    \/ \E i \in 1..Len(links_vec) : SaveBody(i)
    \/ \E i \in 1..Len(links_vec) : WritePanic(i)
    \/ ExitOnLimit
    \/ GoToSleep
    \/ LoopAtOnce
    \/ WakeUp

Spec == Init /\ [][Next]_vars

\* The steps of main's loop and of the pool.
Running ==
    \/ BeginCycle
    \/ BeginCyclePageErr
    \/ Dispatch
    \/ \E i \in 1..Len(links_vec) :
           \/ SkipLedger(i) \/ SendRequest(i) \/ SkipExists(i)
           \/ SendError(i) \/ BadStatus(i)
           \/ CreateFile(i) \/ CreateFilePanic(i)
           \/ BodyError(i) \/ SaveBody(i) \/ WritePanic(i)
    \/ ExitOnLimit
    \/ GoToSleep
    \/ LoopAtOnce
    \/ WakeUp

\* Once in its loop main is a sequential program, and block_on keeps
\* polling the pool (bin.rs:58-72, 147-149); every request that was sent
\* comes back and thread::sleep returns.  A step of the loop or of the pool
\* that can be taken is eventually taken.
SpecLive == Init /\ [][Next]_vars /\ WF_vars(Running)

(* ------------------- get_image_links on its own ------------------------ *)

\* Any page text of up to MaxMatches raw matches is handed to
\* get_image_links; nothing else of the program runs.
InitLinks ==
    /\ pc = "extract"
    /\ page \in AllPages
    /\ links_vec = <<>>
    /\ now = 0
    /\ load_start = 0
    /\ reload = FALSE
    /\ interval = 0
    /\ limit = 0
    /\ concurrent = 1
    /\ DOWNLOADED_FILES = <<>>
    /\ disk = [p \in Paths |-> "none"]
    /\ wpc = <<>>
    /\ wout = <<>>
    /\ cycles = 0
    /\ sleeps = 0
    /\ page_result = "ok"
    /\ prev_page = {}
    /\ prev_send_err = {}
    /\ start_disk = disk
    /\ start_ledger = <<>>
    /\ wgets = <<>>
    /\ thread_link = ThreadUrl
    /\ thread_info = NoThread
    /\ load_runtime = 0
    /\ prev_failed = {}
    /\ dir_state = "exists"
    /\ cwd = "present"

ExtractLinks ==
    /\ pc = "extract"
    /\ links_vec' = get_image_links(page)
    /\ pc' = "extracted"
    /\ UNCHANGED <<page, DOWNLOADED_FILES, disk, wpc, wout, page_result>>
    /\ UNCHANGED schedVars
    /\ UNCHANGED confVars
    /\ UNCHANGED prevVars
    /\ UNCHANGED start_disk
    /\ UNCHANGED start_ledger
    /\ UNCHANGED wgets
    /\ UNCHANGED thread_link
    /\ UNCHANGED thread_info
    /\ UNCHANGED dir_state
    /\ UNCHANGED load_runtime

SpecLinks == InitLinks /\ [][ExtractLinks]_vars

(* ------------------------------ claims --------------------------------- *)

\* C1: at no point of a sync cycle are more than `concurrent` workers
\* started and not yet finished.
C1_ConcurrencyBound == Cardinality(InFlight) <= concurrent

\* The pool is full with two workers while a third link waits.
C1_Witness ==
    /\ pc = "pool"
    /\ concurrent = 2
    /\ Cardinality(InFlight) = 2
    /\ Queued # {}

\* C2: a worker whose fetch ends with a non-success status or a transport
\* error leaves the ledger as it was.
C2_FailedFetchLeavesLedger ==
    [][\A i \in 1..Len(links_vec) :
         (wout[i] = "none" /\ wout'[i] \in {"send_err", "bad_status", "body_err"})
            => DOWNLOADED_FILES' = DOWNLOADED_FILES]_vars

FailedOutcomes == {"send_err", "bad_status", "body_err", "create_fail", "write_fail"}

DistinctNames(links) ==
    \A j, k \in 1..Len(links) : j # k => links[j].name # links[k].name

\* C3: after a failed download (non-success status, transport error while
\* sending or while reading the body, file-write failure) no file is at the
\* candidate path.  Every worker that asks for its link found no file there
\* when it started, and with pairwise distinct names no other worker writes
\* that path.
C3_NoFileAfterFailedDownload ==
    \A i \in 1..Len(links_vec) :
        (wout[i] \in FailedOutcomes /\ DistinctNames(links_vec))
            => disk[img_path(links_vec[i])] = "none"

\* Worker i has created its file (lib.rs:50).
Wrote(i) == wpc[i] = "reading" \/ wout[i] \in {"saved", "body_err", "write_fail"}

\* The current cycle follows a completed cycle on the same page text.
SecondCall == pc \in {"pool", "panicked"} /\ page_result = "ok" /\ page \in prev_page

\* C4 as stated: whatever the first call ended with, no worker of a second
\* call on the same page writes a file.
C4_SecondCallWritesNothing ==
    SecondCall => \A i \in 1..Len(links_vec) : ~Wrote(i)

\* C4 as amended: whatever the first call ended with, a worker of the second
\* call writes a file only at a path for which a request of the first call
\* ended with a transport error; it writes nothing anywhere else, so nothing
\* at all when every request of the first call was answered.
C4_SecondCallWritesOnlyAfterSendError ==
    SecondCall =>
        \A i \in 1..Len(links_vec) : Wrote(i) => img_path(links_vec[i]) \in prev_send_err

\* A second call on a page of three links has skipped all of them by the
\* ledger.
C4_Witness ==
    /\ SecondCall
    /\ prev_send_err = {}
    /\ cycles = 2
    /\ Len(links_vec) = 3
    /\ \A i \in 1..3 : wout[i] = "skip_ledger"
    /\ \E i \in 1..3 : disk[img_path(links_vec[i])] = "full"

\* C5: a failed page fetch does not abort the process: the cycle completes
\* and the scheduler goes on.
C5_PageErrorDoesNotAbort == page_result = "err" => pc # "panicked"

SingleShot == ~reload \/ limit = 0

\* C6: with reload disabled, or a budget of zero, one cycle runs, nothing
\* sleeps, and the scheduler is done after that cycle.
C6_SingleShotRunsOneCycle ==
    SingleShot =>
        /\ cycles <= 1
        /\ sleeps = 0
        /\ pc \in (IF cycles = 0 THEN {"start", "loop", "panicked", "failed"} ELSE {"pool", "done", "panicked"})

\* Reload is disabled, interval and limit are positive, and the scheduler is
\* done after its single cycle.
C6_Witness ==
    /\ ~reload
    /\ limit = MaxLimit
    /\ interval = MaxInterval
    /\ pc = "done"
    /\ cycles = 1
    /\ sleeps = 0

\* C7: in repeating mode no cycle begins when more than the budget has
\* elapsed since the scheduler started.
C7_NoCycleBeginsPastBudget ==
    (reload /\ pc = "pool") => load_start <= limit_time

\* C8: no step shortens the ledger or removes a path from it.
C8_LedgerMonotone ==
    [][/\ Len(DOWNLOADED_FILES') >= Len(DOWNLOADED_FILES)
       /\ \A p \in Paths : has_been_downloaded(DOWNLOADED_FILES, p)
                              => has_been_downloaded(DOWNLOADED_FILES', p)]_vars

\* The ledger holds both paths in a second cycle.
C8_Witness ==
    /\ cycles >= 2
    /\ \A p \in Paths : has_been_downloaded(DOWNLOADED_FILES, p)

\* C9: each path occurs at most once in the ledger.
C9_LedgerHasNoDuplicates ==
    \A j, k \in 1..Len(DOWNLOADED_FILES) :
        j # k => DOWNLOADED_FILES[j] # DOWNLOADED_FILES[k]

\* The distinct elements of s, in order of first occurrence.
RECURSIVE FirstOccurrences(_)
FirstOccurrences(s) ==
    IF Len(s) = 0 THEN <<>>
    ELSE LET init == FirstOccurrences(SubSeq(s, 1, Len(s) - 1))
             last == s[Len(s)]
         IN  IF \E k \in 1..Len(init) : init[k] = last THEN init ELSE Append(init, last)

\* C10: get_image_links returns one Link per distinct resource of the page,
\* in order of first occurrence.
C10_OneLinkPerDistinctResource ==
    pc = "extracted" =>
        links_vec = [i \in 1..Len(FirstOccurrences(page)) |->
                        LinkOf(FirstOccurrences(page)[i])]

\* C11: a worker's failure (fetch or file write) never aborts the pool or
\* the process.
C11_WorkerFailureDoesNotAbort ==
    (\E i \in 1..Len(links_vec) : wout[i] \in FailedOutcomes) => pc # "panicked"

\* C12: main is outside explore_thread only when every worker of the cycle
\* has finished, so no worker runs when the next cycle begins.
C12_CyclesDoNotOverlap ==
    pc \in {"loop", "sleep", "done"} => (InFlight = {} /\ Queued = {})

\* A cycle of three links run two at a time has returned and main is about
\* to begin the next one.
C12_Witness ==
    /\ pc = "loop"
    /\ cycles >= 1
    /\ concurrent = 2
    /\ Len(links_vec) = 3
    /\ \E i \in 1..3 : wout[i] = "saved"

\* What a cycle has done, counted over the branches its workers took
\* (bin.rs:124-144): pb.inc(1) once per link; the Ok arm ("Saved image"),
\* which save_image also reaches after a non-success status (lib.rs:49, 55);
\* "previously downloaded" / "already exists"; the Err arm.
linksSeen == Cardinality({i \in 1..Len(links_vec) : wpc[i] = "done"})
downloaded == Cardinality({i \in 1..Len(links_vec) : wout[i] \in {"saved", "bad_status"}})
skipped == Cardinality({i \in 1..Len(links_vec) : wout[i] \in {"skip_ledger", "skip_exists"}})
failed == Cardinality({i \in 1..Len(links_vec) : wout[i] \in {"send_err", "body_err"}})

OnDiskAtStart == {i \in 1..Len(links_vec) : start_disk[img_path(links_vec[i])] # "none"}

\* A finished cycle that began with an empty ledger, over pairwise distinct
\* names, all of whose fetches and writes succeeded.
CleanCycle ==
    /\ pc = "pool"
    /\ page_result = "ok"
    /\ AllDone
    /\ start_ledger = <<>>
    /\ DistinctNames(links_vec)
    /\ \A i \in 1..Len(links_vec) : wout[i] \notin FailedOutcomes

\* C13: such a cycle has seen every link, skipped the links whose file was
\* on disk when it began, downloaded the others, and failed none.
C13_CycleOutcome ==
    CleanCycle =>
        /\ linksSeen = Len(links_vec)
        /\ skipped = Cardinality(OnDiskAtStart)
        /\ downloaded = Len(links_vec) - Cardinality(OnDiskAtStart)
        /\ failed = 0
        /\ downloaded + skipped + failed = linksSeen

\* Two links run together, one on disk when the cycle began and one not:
\* one skipped, one downloaded.
C13_Witness ==
    /\ CleanCycle
    /\ concurrent = 2
    /\ Len(links_vec) = 2
    /\ Cardinality(OnDiskAtStart) = 1
    /\ downloaded = 1
    /\ skipped = 1

(* ------------------- get_thread_info on its own ------------------------ *)

InitThread ==
    /\ pc = "parse"
    /\ thread_link \in WellFormedLinks \cup MalformedLinks
    /\ thread_info = NoThread
    /\ page = <<>>
    /\ links_vec = <<>>
    /\ now = 0
    /\ load_start = 0
    /\ reload = FALSE
    /\ interval = 0
    /\ limit = 0
    /\ concurrent = 1
    /\ DOWNLOADED_FILES = <<>>
    /\ disk = [p \in Paths |-> "none"]
    /\ wpc = <<>>
    /\ wout = <<>>
    /\ cycles = 0
    /\ sleeps = 0
    /\ page_result = "none"
    /\ prev_page = {}
    /\ prev_send_err = {}
    /\ start_disk = disk
    /\ start_ledger = <<>>
    /\ wgets = <<>>
    /\ load_runtime = 0
    /\ prev_failed = {}
    /\ dir_state = "exists"
    /\ cwd = "present"

ParseThread ==
    /\ pc = "parse"
    /\ thread_info' = get_thread_info(thread_link)
    /\ pc' = IF get_thread_info(thread_link).ok THEN "parsed" ELSE "panicked"
    /\ UNCHANGED <<thread_link, page, links_vec, DOWNLOADED_FILES, disk, wpc, wout,
                   page_result, start_disk, start_ledger, wgets>>
    /\ UNCHANGED schedVars
    /\ UNCHANGED confVars
    /\ UNCHANGED prevVars
    /\ UNCHANGED dir_state
    /\ UNCHANGED load_runtime

SpecThread == InitThread /\ [][ParseThread]_vars

\* The number a string of decimal digits writes, as its digits without
\* leading zeros.
RECURSIVE Canonical(_)
Canonical(ds) == IF Len(ds) > 1 /\ Head(ds) = "0" THEN Canonical(Tail(ds)) ELSE ds

\* C14 as stated: for every locator scheme://host/board/thread/id[#fragment]
\* get_thread_info returns the board and the id as a number.
C14_ThreadInfoOfLocator ==
    pc # "parse" =>
        \A c \in Shapes :
            thread_link = LocatorOf(c) =>
                /\ thread_info.ok
                /\ thread_info.board = c.board
                /\ thread_info.id = Canonical(c.id)

FitsU32(ds) ==
    \/ Len(Canonical(ds)) < Len(U32MaxDigits)
    \/ Len(Canonical(ds)) = Len(U32MaxDigits) /\ leq_digits(Canonical(ds), U32MaxDigits)

\* C14 as amended: the same for every id that is at most 4294967295.
C14_ThreadInfoOfLocatorU32 ==
    pc # "parse" =>
        \A c \in Shapes :
            (thread_link = LocatorOf(c) /\ FitsU32(c.id)) =>
                /\ thread_info.ok
                /\ thread_info.board = c.board
                /\ thread_info.id = Canonical(c.id)

\* A 4plebs locator with a fragment and an id with leading zeros was parsed.
C14_Witness ==
    /\ pc = "parsed"
    /\ thread_link = Locator(<<"h", "t", "t", "p", ":">>,
                             <<"a", "r", "c", "h", "i", "v", "e", ".", "4", "p", "l", "e", "b", "s", ".", "o", "r", "g">>,
                             <<"x">>, <<"0", "0", "7">>, <<"#", "q", "/", "1">>)
    /\ thread_info.board = <<"x">>
    /\ thread_info.id = <<"7">>

\* C16 as stated: when creating the storage directory fails the run
\* continues and the scheduler starts its first cycle; the process does not
\* terminate.
C16_DirectoryFailureRunContinues ==
    dir_state = "error" => pc \in {"loop", "pool", "sleep", "done"}

\* The time between the return of the previous cycle and now.
SleptSecs == now - (load_start + load_runtime)

\* C17: when a further cycle starts, the scheduler has slept exactly
\* intervalDuration - cycleElapsed if the previous cycle took less than the
\* interval and has not slept if it took at least the interval, so the two
\* starts are max(intervalDuration, cycleElapsed) apart.
C17_CycleSpacing ==
    [][(cycles >= 1 /\ cycles' = cycles + 1) =>
          /\ load_runtime < wait_time => SleptSecs = wait_time - load_runtime
          /\ load_runtime >= wait_time => SleptSecs = 0
          /\ load_start' - load_start =
                 IF wait_time >= load_runtime THEN wait_time ELSE load_runtime]_vars

\* A second cycle has started one interval after the first, which took half
\* a minute and was followed by a sleep.
C17_Witness ==
    /\ cycles = 2
    /\ interval = 1
    /\ sleeps = 1
    /\ load_start = SecsPerMinute
    /\ pc = "pool"

\* A second cycle has started at once after a first that took longer than
\* the interval.
C17_WitnessNoSleep ==
    /\ cycles = 2
    /\ interval = 0
    /\ sleeps = 0
    /\ load_start > 0
    /\ pc = "pool"

\* The pool of the current cycle has run every worker to its end.
CycleOver == pc = "pool" /\ InFlight = {} /\ Queued = {}

\* C18: a link whose fetch failed in the previous cycle and that is on the
\* page again is asked for again by this cycle, and no worker issues more
\* than one GET in a cycle.
C18_FailedLinkIsRetried ==
    /\ \A i \in 1..Len(wgets) : wgets[i] <= 1
    /\ (CycleOver /\ page \in prev_page) =>
           \A p \in prev_failed :
               \E i \in 1..Len(links_vec) : img_path(links_vec[i]) = p /\ wgets[i] >= 1

\* The worker of link i ends with a skip in this step.
SkipStep(i) == wpc[i] = "new" /\ wout'[i] \in {"skip_ledger", "skip_exists"}

\* C19: a worker that skips issues no request and leaves the directory as
\* it is; after a skip on a file found on disk the path is in the ledger,
\* and a skip on a ledger hit leaves the ledger as it is.  When a cycle is
\* over, no more files were written than links were downloaded.
C19_SkipsWriteNothing ==
    /\ [][\A i \in 1..Len(links_vec) :
            SkipStep(i) =>
                /\ wgets' = wgets
                /\ disk' = disk
                /\ wout'[i] = "skip_exists" =>
                       has_been_downloaded(DOWNLOADED_FILES', img_path(links_vec[i]))
                /\ wout'[i] = "skip_ledger" => DOWNLOADED_FILES' = DOWNLOADED_FILES]_vars
    /\ [](CycleOver =>
            Cardinality({i \in 1..Len(links_vec) : Wrote(i)}) <= downloaded)

\* The workers that have sent their request and not yet finished.
Fetching == {i \in 1..Len(links_vec) : wpc[i] \in {"sending", "reading"}}

\* C20: no two workers that are fetching or writing at the same time have
\* the same candidate path, and no path is written by two successful
\* downloads.
C20_DistinctFileNames ==
    /\ \A i, j \in Fetching :
           i # j => img_path(links_vec[i]) # img_path(links_vec[j])
    /\ \A i, j \in 1..Len(links_vec) :
           (i # j /\ wout[i] = "saved" /\ wout[j] = "saved") =>
               img_path(links_vec[i]) # img_path(links_vec[j])

\* C21: a cycle whose pool has started eventually returns to main with
\* every link processed, each by one worker that asked for it at most once.
C21_CycleReturns ==
    (pc = "pool") ~>
        (/\ pc \in {"loop", "sleep", "done"}
         /\ \A i \in 1..Len(links_vec) : wpc[i] = "done" /\ wgets[i] <= 1)

\* C22: in repeating mode with a positive interval, if no cycle panics the
\* scheduler eventually stops; it stops only at the check that follows a
\* finished cycle, with more than the budget elapsed.
C22_SchedulerStops ==
    /\ [](pc # "panicked") => ((pc = "loop" /\ reload /\ interval > 0) ~> (pc = "done"))
    /\ [][(pc # "done" /\ pc' = "done") => (CycleOver /\ now' > limit_time)]_vars

\* The scheduler has stopped after its second cycle, in repeating mode with
\* an interval of one minute.
C22_Witness ==
    /\ pc = "done"
    /\ reload
    /\ interval = 1
    /\ cycles = 2
    /\ now > limit_time

====
